---------------------------- MODULE Spec2Model ----------------------------
(***************************************************************************)
(* Ingestion pipeline of mazkir-bot: MessageIngestionService               *)
(* (src/src/services/message_ingestion.py) driving MazkirClient            *)
(* (src/src/bot/client.py), EmbeddingService                               *)
(* (src/src/services/embedding_service.py) and MessageRepository           *)
(* (src/src/database/repository.py) over the messages table                *)
(* (src/src/database/models.py), and the nearest-neighbour query of the    *)
(* repository behind a retrieval call.                                     *)
(*                                                                         *)
(* Every ingestion call is an asyncio coroutine: it can be suspended only  *)
(* at an await.  The model has one action per code block that ends at an   *)
(* await (or at a loop head), so two calls interleave at least as finely   *)
(* as the event loop allows.  The Telegram source, the embedding provider  *)
(* and the database are the environment: each awaited call either returns  *)
(* or raises, the caller may cancel a call at an await, and the number of  *)
(* such events is bounded by the budget of the scenario.                   *)
(***************************************************************************)
EXTENDS Integers, Sequences, FiniteSets, TLC

----------------------------------------------------------------------------
(* Bounds of the model *)

MaxSource == 3
MaxBatch == 3
MaxFaults == 1
MaxSourceTwice == 2
MaxFaultsTwice == 0
MaxSourceConc == 1
MaxFaultsConc == 1
MaxSourceEdited == 1
MaxFaultsEdited == 0
MaxRows == 3
MaxFaultsSearch == 1

(* §4.1 of the specification: "cap this to a sane maximum, e.g. 1000" *)
SaneMaxLimit == 1000

Runs == {1, 2}
Ids == {1, 2}
None == "<None>"
Texts == {None, "", "a"}
Entries == {"saved", "channel"}

Min(a, b) == IF a < b THEN a ELSE b

Records == [id : Ids, text : Texts]

(* records whose text is a string, empty or not *)
PlainRecords == {m \in Records : m.text # None}

(* records that all carry the same telegram id *)
SameIdRecords == {m \in PlainRecords : m.id = 1}

(* records as first sent, and the texts an edit of a sent message can give it *)
SentRecords == {m \in Records : m.text = "a"}
EditedTexts == {"", "b"}

RECURSIVE SeqsUpTo(_, _)
SeqsUpTo(S, n) ==
    IF n = 0 THEN {<<>>}
    ELSE LET shorter == SeqsUpTo(S, n - 1)
         IN  shorter \cup {Append(s, x) : s \in {t \in shorter : Len(t) = n - 1}, x \in S}

(* batch_size arguments: negative, zero and the valid ones up to a maximum *)
BatchSizes(max) == (-1) .. max

(* limit arguments: a small one, and one above the maximum the specification asks for *)
Limits == {1, SaneMaxLimit + 1}

----------------------------------------------------------------------------
VARIABLES
    source,        \* what the Telegram dialog yields, newest first
    store,         \* the messages table, in insertion order
    scenario,      \* the calls issued, whether they may overlap, their arguments,
                   \* and the number of failures the environment may inject
    faults,        \* failures injected so far
    pc,            \* per call: the await (or loop head) it is suspended at
    limit,         \* per call: the limit argument
    batch_size,    \* per call: the batch_size argument
    requested,     \* per call: the limit handed to iter_messages
    messages,      \* per call: the fetched list
    i,             \* per call: the loop variable of "for i in range(...)"
    stats,         \* per call: the running totals
    batch_stats,   \* per call: the statistics of the batch in progress / last returned
    text_messages, \* per call: positions (in messages) of the batch's records with text
    embeddings,    \* per call: what embed_texts returned
    k,             \* per call: position of the zip iteration
    result,        \* per call: the value returned to the caller
    raisedAt,      \* per call: where the exception that left the call was raised
    outcome,       \* per call: how the last batch ended
    fate,          \* per call: for each fetched position, the counter the record was
                   \* counted in by the code after the filter, and what led to it
    nbatches,      \* per call: number of _process_batch invocations
    clean,         \* per call: no failure was injected into it
    after,         \* per call: the calls that had ended when it started
    log,           \* per call: the provider and database calls made for the batch
                   \* in progress (or the last one), in the order they were made
    search,        \* the retrieval call: where it stands, its arguments, its result
    bot            \* the event being dispatched: its sender and text, the next
                   \* handler in registration order, the replies sent, the handler
                   \* bodies run and the vault / LLM calls they made

vars == <<source, store, scenario, faults, pc, limit, batch_size, requested,
          messages, i, stats, batch_stats, text_messages, embeddings, k, result,
          raisedAt, outcome, fate, nbatches, clean, after, log, search, bot>>

envVars == <<source, scenario>>
argVars == <<limit, batch_size, requested, after>>

----------------------------------------------------------------------------
(* Pure helpers *)

NoStats == [total_fetched |-> -1, new_stored |-> 0, already_exists |-> 0,
            skipped_no_text |-> 0, errors |-> 0]

(* message_ingestion.py 43-49 *)
InitialStats(msgs) ==
    [total_fetched |-> Len(msgs), new_stored |-> 0, already_exists |-> 0,
     skipped_no_text |-> 0, errors |-> 0]

(* message_ingestion.py 114-119 *)
EmptyBatchStats ==
    [new_stored |-> 0, already_exists |-> 0, skipped_no_text |-> 0, errors |-> 0]

(* stats[key] = batch_stats[key] in place of stats[key] += batch_stats[key] *)
Merge_Overwrite(s, b) ==
    [s EXCEPT !.new_stored = b.new_stored,
              !.already_exists = b.already_exists,
              !.skipped_no_text = b.skipped_no_text,
              !.errors = b.errors]

(* message_ingestion.py 56-59 *)
Merge(s, b) ==
    [s EXCEPT !.new_stored = @ + b.new_stored,
              !.already_exists = @ + b.already_exists,
              !.skipped_no_text = @ + b.skipped_no_text,
              !.errors = @ + b.errors]

(* a filter that only drops None *)
HasText_NotNone(m) == m.text # None

(* Python truthiness of m.text: None and "" are falsy *)
HasText(m) == m.text # None /\ m.text # ""

(* iter_messages(..., limit=limit): at most limit messages, in source order *)
Fetched(src, lim) == SubSeq(src, 1, Min(lim, Len(src)))

(* a range that also produces its stop value *)
InRange_Inclusive(x, n, step) == IF step > 0 THEN x <= n ELSE x >= n

(* range(0, n, step): whether x is produced; step = 0 raises before this is asked *)
InRange(x, n, step) == IF step > 0 THEN x < n ELSE x > n

(* messages[i : i + batch_size] as the positions (1-based) it covers *)
BatchPositions(n, start, size) == (start + 1) .. Min(start + size, n)

(* a filter that lists the records with text last first *)
RECURSIVE Filter_Reversed(_, _, _)
Filter_Reversed(msgs, lo, hi) ==
    IF lo > hi THEN <<>>
    ELSE IF HasText(msgs[lo]) THEN Filter_Reversed(msgs, lo + 1, hi) \o <<lo>>
         ELSE Filter_Reversed(msgs, lo + 1, hi)

RECURSIVE Filter(_, _, _)
Filter(msgs, lo, hi) ==
    IF lo > hi THEN <<>>
    ELSE IF HasText(msgs[lo]) THEN <<lo>> \o Filter(msgs, lo + 1, hi)
         ELSE Filter(msgs, lo + 1, hi)

(* the provider's vector for a text *)
Vec(t) == <<"vec", t>>

(* select(Message).where(Message.telegram_id == telegram_id) *)
RowsWith(st, tid) == {j \in 1 .. Len(st) : st[j].telegram_id = tid}

(* a lookup that never finds the row *)
get_by_telegram_id_Blind(st, tid) == FALSE

(* a lookup that does not see the row inserted last (an insert that is not    *)
(* committed before the next lookup)                                          *)
get_by_telegram_id_SkipNewest(st, tid) ==
    \E j \in 1 .. Len(st) - 1 : st[j].telegram_id = tid

get_by_telegram_id(st, tid) == RowsWith(st, tid) # {}

(* a table whose telegram_id column has no unique index *)
UniqueViolation_NoIndex(st, tid) == FALSE

(* unique index on messages.telegram_id *)
UniqueViolation(st, tid) == RowsWith(st, tid) # {}

Ended(p) == p \in {"idle", "done", "raised"}

Uncounted == [counter |-> "none", cause |-> "none"]

----------------------------------------------------------------------------
(* Nearest-neighbour query *)

(* embedding = NULL: the column is nullable *)
NoEmbedding == <<>>

(* The texts of the retrieval scenario.  The provider's vectors are taken on  *)
(* a line, the vector of the n-th text at coordinate n: the first and the     *)
(* third text are at the same distance from the second.                       *)
TextPoints == <<"a", "b", "c">>

QueryTexts == {TextPoints[n] : n \in DOMAIN TextPoints}

Coordinate(v) == CHOOSE n \in DOMAIN TextPoints : TextPoints[n] = v[2]

(* Message.embedding.l2_distance(embedding); the distance to NULL is NULL,    *)
(* which ORDER BY ... ASC puts after every number                             *)
l2_distance(u, v) ==
    IF u = NoEmbedding \/ v = NoEmbedding THEN Len(TextPoints)
    ELSE LET d == Coordinate(u) - Coordinate(v)
         IN  IF d < 0 THEN -d ELSE d

(* every row of the table is a candidate *)
Candidates_All(st) == 1 .. Len(st)

(* .where(Message.embedding.isnot(None)) *)
Candidates(st) == {j \in 1 .. Len(st) : st[j].embedding # NoEmbedding}

(* the ways to list a set of rows *)
Listings(S) ==
    {s \in [1 .. Cardinality(S) -> S] : \A a, b \in DOMAIN s : a # b => s[a] # s[b]}

(* .order_by(l2_distance): the candidates by distance, nearest first; the     *)
(* statement has no second sort key, rows at the same distance come in any    *)
(* order                                                                      *)
Ordered(st, q) ==
    {s \in Listings(Candidates(st)) :
        \A a, b \in DOMAIN s :
            a < b => l2_distance(st[s[a]].embedding, q) <= l2_distance(st[s[b]].embedding, q)}

(* a statement without .limit(limit) *)
search_similar_NoLimit(st, q, lim) == Ordered(st, q)

(* search_similar: the lists (of row positions) the statement can return *)
search_similar(st, q, lim) == {SubSeq(s, 1, Min(lim, Len(s))) : s \in Ordered(st, q)}

(* the rows of the retrieval scenario: telegram_id j at position j, a text,   *)
(* and either the vector of the text or no embedding                          *)
RowsAt(j) ==
    {[telegram_id |-> j, text |-> t, embedding |-> e, by |-> <<0, j>>] :
        t \in QueryTexts, e \in {NoEmbedding}} \cup
    {[telegram_id |-> j, text |-> t, embedding |-> Vec(t), by |-> <<0, j>>] :
        t \in QueryTexts}

RECURSIVE Tables(_)
Tables(n) ==
    IF n = 0 THEN {<<>>}
    ELSE LET shorter == Tables(n - 1)
         IN  shorter \cup {Append(st, row) : st \in {t \in shorter : Len(t) = n - 1},
                                               row \in RowsAt(n)}

(* no retrieval call has been made *)
NoSearch == [pc |-> "idle", query_text |-> None, k |-> 0, vector |-> NoEmbedding,
             embed_failed |-> FALSE, queried |-> FALSE, results |-> <<>>,
             returned |-> FALSE]

----------------------------------------------------------------------------
(* Event handlers *)

(* event.sender_id is settings.authorized_user_id, or another id *)
Owner == "owner"
Senders == {Owner, "stranger"}

CommandWords == {"/start", "/day", "/tasks", "/habits", "/goals", "/tokens", "/help"}

(* first pieces of a text that begin with '/' *)
SlashWords == CommandWords \cup {"/foo"}

(* The texts of events, as the sequence of pieces the patterns cut them in:   *)
(* a command, a command followed by more characters, an unknown command, a    *)
(* plain text, a plain text that holds a command further on, and the empty    *)
(* text of a message without text.                                            *)
EventTexts ==
    {<<w>> : w \in CommandWords}
        \cup {<<"/start", "ed">>, <<"/foo">>, <<"hi">>, <<"hi", "/day">>, <<>>}

(* the (handler, event builder) pairs, in the order main registers them *)
get_handlers ==
    << [handler |-> "cmd_start",      pattern |-> <<"/start">>],
       [handler |-> "cmd_day",        pattern |-> <<"/day">>],
       [handler |-> "cmd_tasks",      pattern |-> <<"/tasks">>],
       [handler |-> "cmd_habits",     pattern |-> <<"/habits">>],
       [handler |-> "cmd_goals",      pattern |-> <<"/goals">>],
       [handler |-> "cmd_tokens",     pattern |-> <<"/tokens">>],
       [handler |-> "cmd_help",       pattern |-> <<"/help">>],
       [handler |-> "handle_message", pattern |-> <<>>] >>

(* events.NewMessage(pattern=p): the pattern matches at the start of the      *)
(* text; events.NewMessage() matches every message                            *)
Matches(pattern, text) ==
    /\ Len(pattern) <= Len(text)
    /\ SubSeq(text, 1, Len(pattern)) = pattern

(* event.message.text.startswith('/') *)
StartsWithSlash(text) == text # <<>> /\ text[1] \in SlashWords

(* a wrapper that lets every sender through *)
authorized_only_Anyone(sender) == TRUE

(* event.sender_id != settings.authorized_user_id: reply and return *)
authorized_only(sender) == sender = Owner

NoEvent == [pc |-> "idle", sender |-> Owner, text |-> <<>>, h |-> 1,
            replies |-> <<>>, ran |-> {}, calls |-> {}]

(* the callback returned, or raised something else than StopPropagation: the  *)
(* dispatch goes on with the next registered handler                          *)
Passed(b) ==
    [b EXCEPT !.h = @ + 1,
              !.pc = IF b.h = Len(get_handlers) THEN "done" ELSE "dispatch"]

(* the callback raised events.StopPropagation: no later handler is called *)
Stopped(b) == [b EXCEPT !.pc = "done"]

(* the body of a handler ran: the vault / LLM calls it made, the replies it   *)
(* sent with event.respond, in order                                          *)
Ran(b, handler, made, sent) ==
    [b EXCEPT !.ran = @ \cup {handler}, !.calls = @ \cup made, !.replies = @ \o sent]

----------------------------------------------------------------------------
(* Initial states *)

InitWith(sources, stores, scn) ==
    /\ source \in sources
    /\ scenario = scn
    /\ store \in stores
    /\ faults = 0
    /\ pc = [r \in Runs |-> "idle"]
    /\ limit = [r \in Runs |-> 0]
    /\ batch_size = [r \in Runs |-> 0]
    /\ requested = [r \in Runs |-> 0]
    /\ messages = [r \in Runs |-> <<>>]
    /\ i = [r \in Runs |-> 0]
    /\ stats = [r \in Runs |-> NoStats]
    /\ batch_stats = [r \in Runs |-> EmptyBatchStats]
    /\ text_messages = [r \in Runs |-> <<>>]
    /\ embeddings = [r \in Runs |-> <<>>]
    /\ k = [r \in Runs |-> 0]
    /\ result = [r \in Runs |-> NoStats]
    /\ raisedAt = [r \in Runs |-> "nowhere"]
    /\ outcome = [r \in Runs |-> "none"]
    /\ fate = [r \in Runs |-> <<>>]
    /\ nbatches = [r \in Runs |-> 0]
    /\ clean = [r \in Runs |-> TRUE]
    /\ after = [r \in Runs |-> {}]
    /\ log = [r \in Runs |-> <<>>]
    /\ search = NoSearch
    /\ bot = NoEvent

(* one ingestion call *)
InitOne ==
    InitWith(SeqsUpTo(Records, MaxSource), {<<>>},
             [calls |-> {1}, searches |-> FALSE, events |-> FALSE, edits |-> FALSE, overlap |-> FALSE, limits |-> Limits,
              batch_sizes |-> BatchSizes(MaxBatch), budget |-> MaxFaults])

(* two ingestion calls, the second after the first has ended *)
InitTwice ==
    InitWith(SeqsUpTo(PlainRecords, MaxSourceTwice), {<<>>},
             [calls |-> Runs, searches |-> FALSE, events |-> FALSE, edits |-> FALSE, overlap |-> FALSE, limits |-> {SaneMaxLimit + 1},
              batch_sizes |-> BatchSizes(MaxSourceTwice), budget |-> MaxFaultsTwice])

(* two ingestion calls whose steps interleave *)
InitConc ==
    InitWith(SeqsUpTo(SameIdRecords, MaxSourceConc), {<<>>},
             [calls |-> Runs, searches |-> FALSE, events |-> FALSE, edits |-> FALSE, overlap |-> TRUE, limits |-> {SaneMaxLimit + 1},
              batch_sizes |-> BatchSizes(MaxSourceConc), budget |-> MaxFaultsConc])

(* two ingestion calls, one after the other; a message of the dialog may be   *)
(* edited in between                                                          *)
InitEdited ==
    InitWith(SeqsUpTo(SentRecords, MaxSourceEdited), {<<>>},
             [calls |-> Runs, searches |-> FALSE, events |-> FALSE, edits |-> TRUE, overlap |-> FALSE,
              limits |-> {SaneMaxLimit + 1}, batch_sizes |-> 1 .. MaxSourceEdited,
              budget |-> MaxFaultsEdited])

(* one retrieval call over a table filled earlier, by ingestion or by         *)
(* repo.create without an embedding                                           *)
InitSearch ==
    InitWith({<<>>}, Tables(MaxRows),
             [calls |-> {}, searches |-> TRUE, events |-> FALSE, edits |-> FALSE, overlap |-> FALSE, limits |-> {},
              batch_sizes |-> {}, budget |-> MaxFaultsSearch])

(* one incoming message event, dispatched to the registered handlers *)
InitEvents ==
    InitWith({<<>>}, {<<>>},
             [calls |-> {}, searches |-> FALSE, events |-> TRUE, edits |-> FALSE, overlap |-> FALSE,
              limits |-> {}, batch_sizes |-> {}, budget |-> 0])

Init == InitOne \/ InitTwice \/ InitConc \/ InitEdited \/ InitSearch \/ InitEvents

----------------------------------------------------------------------------
(* ingest_saved_messages / ingest_channel_messages *)

(* the limit handed to the client: the argument, unchanged *)
RequestLimit(l) == l

(* the call is made and runs to the await of the fetch *)
Start(r) ==
    /\ pc[r] = "idle"
    /\ r \in scenario.calls
    /\ \A q \in Runs : q < r => pc[q] # "idle"
    /\ scenario.overlap \/ \A q \in Runs \ {r} : Ended(pc[q])
    /\ \E e \in Entries, l \in scenario.limits, b \in scenario.batch_sizes :
          /\ pc' = [pc EXCEPT ![r] = "fetch_" \o e]
          /\ limit' = [limit EXCEPT ![r] = l]
          /\ batch_size' = [batch_size EXCEPT ![r] = b]
          /\ requested' = [requested EXCEPT ![r] = RequestLimit(l)]
    /\ after' = [after EXCEPT ![r] = {q \in Runs : pc[q] \in {"done", "raised"}}]
    /\ UNCHANGED <<envVars, bot, search, log, store, faults, messages, i, stats, batch_stats,
                   text_messages, embeddings, k, result, raisedAt, outcome, fate,
                   nbatches, clean>>

Fetching(r) == pc[r] \in {"fetch_saved", "fetch_channel"}

(* get_saved_messages / get_channel_messages return; stats is initialised *)
FetchOk(r) ==
    /\ Fetching(r)
    /\ LET msgs == Fetched(source, requested[r])
       IN  /\ messages' = [messages EXCEPT ![r] = msgs]
           /\ stats' = [stats EXCEPT ![r] = InitialStats(msgs)]
           /\ fate' = [fate EXCEPT ![r] = [p \in 1 .. Len(msgs) |-> Uncounted]]
    /\ pc' = [pc EXCEPT ![r] = "loop"]
    /\ UNCHANGED <<envVars, bot, search, log, argVars, store, faults, i, batch_stats, text_messages,
                   embeddings, k, result, raisedAt, outcome, nbatches, clean>>

(* the fetch raises and the call goes on with an empty list *)
FetchFail_Swallowed(r) ==
    /\ Fetching(r)
    /\ faults < scenario.budget
    /\ faults' = faults + 1
    /\ raisedAt' = [raisedAt EXCEPT ![r] = "fetch"]
    /\ clean' = [clean EXCEPT ![r] = FALSE]
    /\ stats' = [stats EXCEPT ![r] = InitialStats(<<>>)]
    /\ pc' = [pc EXCEPT ![r] = "loop"]
    /\ UNCHANGED <<envVars, bot, search, log, argVars, store, messages, i, batch_stats,
                   text_messages, embeddings, k, result, outcome, fate, nbatches>>

(* the fetch raises: nothing catches it, the call ends with the exception *)
FetchFail(r) ==
    /\ Fetching(r)
    /\ faults < scenario.budget
    /\ faults' = faults + 1
    /\ pc' = [pc EXCEPT ![r] = "raised"]
    /\ raisedAt' = [raisedAt EXCEPT ![r] = "fetch"]
    /\ clean' = [clean EXCEPT ![r] = FALSE]
    /\ UNCHANGED <<envVars, bot, search, log, argVars, store, messages, i, stats, batch_stats,
                   text_messages, embeddings, k, result, outcome, fate, nbatches>>

(* range(0, len(messages), 0) raises ValueError *)
RangeError(r) ==
    /\ pc[r] = "loop"
    /\ batch_size[r] = 0
    /\ pc' = [pc EXCEPT ![r] = "raised"]
    /\ raisedAt' = [raisedAt EXCEPT ![r] = "range"]
    /\ UNCHANGED <<envVars, bot, search, log, argVars, store, faults, messages, i, stats, batch_stats,
                   text_messages, embeddings, k, result, outcome, fate, nbatches,
                   clean>>

(* a step of batch_size + 1 *)
NextIndex_Skip(r) == IF nbatches[r] = 0 THEN 0 ELSE i[r] + batch_size[r] + 1

NextIndex(r) == IF nbatches[r] = 0 THEN 0 ELSE i[r] + batch_size[r]

MoreBatches(r) ==
    /\ batch_size[r] # 0
    /\ InRange(NextIndex(r), Len(messages[r]), batch_size[r])

(* the positions of messages[i : i + batch_size] for the next i *)
NextBatch(r) == BatchPositions(Len(messages[r]), NextIndex(r), batch_size[r])

(* a filter that also drops the records whose id is in the table *)
NextTextMessages_Deduped(r) ==
    LET tm == Filter(messages[r], NextIndex(r) + 1,
                     Min(NextIndex(r) + batch_size[r], Len(messages[r])))
    IN  SelectSeq(tm, LAMBDA p : ~get_by_telegram_id(store, messages[r][p].id))

NextTextMessages(r) ==
    Filter(messages[r], NextIndex(r) + 1,
           Min(NextIndex(r) + batch_size[r], Len(messages[r])))

(* the range is exhausted: return stats *)
Return(r) ==
    /\ pc[r] = "loop"
    /\ batch_size[r] # 0
    /\ ~MoreBatches(r)
    /\ pc' = [pc EXCEPT ![r] = "done"]
    /\ result' = [result EXCEPT ![r] = stats[r]]
    /\ UNCHANGED <<envVars, bot, search, log, argVars, store, faults, messages, i, stats, batch_stats,
                   text_messages, embeddings, k, raisedAt, outcome, fate, nbatches,
                   clean>>

----------------------------------------------------------------------------
(* _process_batch *)

(* what _process_batch starts from: only skipped_no_text is set *)
FilteredStats(size, withText) ==
    [EmptyBatchStats EXCEPT !.skipped_no_text = size - withText]

(* a batch with no text message: _process_batch returns before any await *)
BatchNoText(r) ==
    /\ pc[r] = "loop"
    /\ MoreBatches(r)
    /\ NextTextMessages(r) = <<>>
    /\ i' = [i EXCEPT ![r] = NextIndex(r)]
    /\ nbatches' = [nbatches EXCEPT ![r] = @ + 1]
    /\ text_messages' = [text_messages EXCEPT ![r] = <<>>]
    /\ LET b == FilteredStats(Cardinality(NextBatch(r)), 0)
       IN  /\ batch_stats' = [batch_stats EXCEPT ![r] = b]
           /\ stats' = [stats EXCEPT ![r] = Merge(@, b)]
    /\ outcome' = [outcome EXCEPT ![r] = "no_text"]
    /\ log' = [log EXCEPT ![r] = <<>>]
    /\ UNCHANGED <<envVars, bot, search, argVars, store, faults, pc, messages, embeddings, k,
                   result, raisedAt, fate, clean>>

(* a batch with text messages: runs to the await of embed_texts *)
BatchBegin(r) ==
    /\ pc[r] = "loop"
    /\ MoreBatches(r)
    /\ NextTextMessages(r) # <<>>
    /\ i' = [i EXCEPT ![r] = NextIndex(r)]
    /\ nbatches' = [nbatches EXCEPT ![r] = @ + 1]
    /\ text_messages' = [text_messages EXCEPT ![r] = NextTextMessages(r)]
    /\ batch_stats' = [batch_stats EXCEPT ![r] =
                          FilteredStats(Cardinality(NextBatch(r)),
                                        Len(NextTextMessages(r)))]
    /\ outcome' = [outcome EXCEPT ![r] = "running"]
    /\ log' = [log EXCEPT ![r] = <<<<"embed_texts", 0>>>>]
    /\ pc' = [pc EXCEPT ![r] = "embed"]
    /\ UNCHANGED <<envVars, bot, search, argVars, store, faults, messages, stats, embeddings, k,
                   result, raisedAt, fate, clean>>

(* the text of the first record only *)
texts_FirstOnly(r) == <<messages[r][text_messages[r][1]].text>>

(* texts = [m.text for m in text_messages] *)
texts(r) == [j \in 1 .. Len(text_messages[r]) |-> messages[r][text_messages[r][j]].text]

(* length of zip(text_messages, embeddings) *)
ZipLen(tm, em) == Min(Len(tm), Len(em))

(* where the call goes once the zip loop stands at position j *)
LoopTarget(tm, em, j) == IF j <= ZipLen(tm, em) THEN "lookup" ELSE "close"

(* embed_texts returns one vector per text *)
EmbedOk(r) ==
    /\ pc[r] = "embed"
    /\ LET em == [j \in 1 .. Len(texts(r)) |-> Vec(texts(r)[j])]
       IN  /\ embeddings' = [embeddings EXCEPT ![r] = em]
           /\ pc' = [pc EXCEPT ![r] = LoopTarget(text_messages[r], em, 1)]
    /\ k' = [k EXCEPT ![r] = 1]
    /\ UNCHANGED <<envVars, bot, search, log, argVars, store, faults, messages, i, stats, batch_stats,
                   text_messages, result, raisedAt, outcome, fate, nbatches, clean>>

(* embed_texts returns fewer vectors than texts *)
EmbedShort(r) ==
    /\ pc[r] = "embed"
    /\ faults < scenario.budget
    /\ faults' = faults + 1
    /\ clean' = [clean EXCEPT ![r] = FALSE]
    /\ \E n \in 0 .. (Len(texts(r)) - 1) :
          LET em == [j \in 1 .. n |-> Vec(texts(r)[j])]
          IN  /\ embeddings' = [embeddings EXCEPT ![r] = em]
              /\ pc' = [pc EXCEPT ![r] = LoopTarget(text_messages[r], em, 1)]
    /\ k' = [k EXCEPT ![r] = 1]
    /\ UNCHANGED <<envVars, bot, search, log, argVars, store, messages, i, stats, batch_stats,
                   text_messages, result, raisedAt, outcome, fate, nbatches>>

(* the whole batch, the records without text included, counted in errors *)
ProviderFailedStats_Whole(b, tm) == [b EXCEPT !.errors = Len(tm) + b.skipped_no_text]

(* errors += 1 in place of errors = len(text_messages) *)
ProviderFailedStats_One(b, tm) == [b EXCEPT !.errors = @ + 1]

(* the statistics a batch returns when embed_texts raised *)
ProviderFailedStats(b, tm) == [b EXCEPT !.errors = Len(tm)]

(* embed_texts raises: errors = len(text_messages), return stats *)
EmbedFail(r) ==
    /\ pc[r] = "embed"
    /\ faults < scenario.budget
    /\ faults' = faults + 1
    /\ clean' = [clean EXCEPT ![r] = FALSE]
    /\ LET b == ProviderFailedStats(batch_stats[r], text_messages[r])
       IN  /\ batch_stats' = [batch_stats EXCEPT ![r] = b]
           /\ stats' = [stats EXCEPT ![r] = Merge(@, b)]
    /\ fate' = [fate EXCEPT ![r] =
                   [p \in DOMAIN @ |->
                       IF \E j \in 1 .. Len(text_messages[r]) : text_messages[r][j] = p
                       THEN [counter |-> "errors", cause |-> "provider"] ELSE @[p]]]
    /\ outcome' = [outcome EXCEPT ![r] = "provider_failed"]
    /\ pc' = [pc EXCEPT ![r] = "loop"]
    /\ UNCHANGED <<envVars, bot, search, log, argVars, store, messages, i, text_messages, embeddings, k,
                   result, raisedAt, nbatches>>

----------------------------------------------------------------------------
(* the loop over zip(text_messages, embeddings), inside the session *)

(* zip(messages, embeddings): the k-th record of the batch, with or without  *)
(* text                                                                       *)
Current_Unfiltered(r) == i[r] + k[r]

(* position (in messages) of the record the zip loop is at *)
Current(r) == text_messages[r][k[r]]
message(r) == messages[r][Current(r)]

(* the database call the record at the zip position is suspended at is made *)
Logged(r, op) == log' = [log EXCEPT ![r] = Append(@, <<op, Current(r)>>)]

(* repo.create called without embedding=embedding *)
NewRow_NoEmbedding(r) ==
    [telegram_id |-> message(r).id, text |-> message(r).text,
     embedding |-> NoEmbedding, by |-> <<r, Current(r)>>]

(* the row repo.create adds: the message and its embedding *)
NewRow(r) ==
    [telegram_id |-> message(r).id, text |-> message(r).text,
     embedding |-> embeddings[r][k[r]], by |-> <<r, Current(r)>>]

Count(b, counter) ==
    CASE counter = "already_exists" -> [b EXCEPT !.already_exists = @ + 1]
      [] counter = "new_stored" -> [b EXCEPT !.new_stored = @ + 1]
      [] counter = "errors" -> [b EXCEPT !.errors = @ + 1]

(* an error ends the zip loop in place of moving on to the next record *)
Counted_BreakOnError(r, counter, cause) ==
    /\ batch_stats' = [batch_stats EXCEPT ![r] = Count(@, counter)]
    /\ fate' = [fate EXCEPT ![r][Current(r)] = [counter |-> counter, cause |-> cause]]
    /\ k' = [k EXCEPT ![r] = @ + 1]
    /\ pc' = [pc EXCEPT ![r] =
                 IF counter = "errors" THEN "close"
                 ELSE LoopTarget(text_messages[r], embeddings[r], k[r] + 1)]

(* the record at the zip position is counted and the loop moves on *)
Counted(r, counter, cause) ==
    /\ batch_stats' = [batch_stats EXCEPT ![r] = Count(@, counter)]
    /\ fate' = [fate EXCEPT ![r][Current(r)] = [counter |-> counter, cause |-> cause]]
    /\ k' = [k EXCEPT ![r] = @ + 1]
    /\ pc' = [pc EXCEPT ![r] = LoopTarget(text_messages[r], embeddings[r], k[r] + 1)]

(* a database call raises: "except Exception" counts the record in errors *)
StoreFault(r, cause) ==
    /\ faults < scenario.budget
    /\ faults' = faults + 1
    /\ clean' = [clean EXCEPT ![r] = FALSE]
    /\ Counted(r, "errors", cause)

(* an upsert: the row found is given the text and the embedding of the        *)
(* record fetched now                                                         *)
LookupHit_Overwrite(r) ==
    /\ pc[r] = "lookup"
    /\ Logged(r, "get_by_telegram_id")
    /\ get_by_telegram_id(store, message(r).id)
    /\ Counted(r, "already_exists", "lookup_hit")
    /\ store' = [j \in DOMAIN store |->
                    IF store[j].telegram_id = message(r).id
                    THEN [store[j] EXCEPT !.text = message(r).text,
                                          !.embedding = embeddings[r][k[r]]]
                    ELSE store[j]]
    /\ UNCHANGED <<envVars, bot, search, argVars, faults, messages, i, stats, text_messages,
                   embeddings, result, raisedAt, outcome, nbatches, clean>>

(* get_by_telegram_id finds a row: already_exists += 1; continue *)
LookupHit(r) ==
    /\ pc[r] = "lookup"
    /\ Logged(r, "get_by_telegram_id")
    /\ get_by_telegram_id(store, message(r).id)
    /\ Counted(r, "already_exists", "lookup_hit")
    /\ UNCHANGED <<envVars, bot, search, argVars, store, faults, messages, i, stats, text_messages,
                   embeddings, result, raisedAt, outcome, nbatches, clean>>

(* get_by_telegram_id finds nothing: on to repo.create *)
LookupMiss(r) ==
    /\ pc[r] = "lookup"
    /\ Logged(r, "get_by_telegram_id")
    /\ ~get_by_telegram_id(store, message(r).id)
    /\ pc' = [pc EXCEPT ![r] = "commit"]
    /\ UNCHANGED <<envVars, bot, search, argVars, store, faults, messages, i, stats, batch_stats,
                   text_messages, embeddings, k, result, raisedAt, outcome, fate,
                   nbatches, clean>>

(* the lookup raises *)
LookupFail(r) ==
    /\ pc[r] = "lookup"
    /\ Logged(r, "get_by_telegram_id")
    /\ StoreFault(r, "lookup_failed")
    /\ UNCHANGED <<envVars, bot, search, argVars, store, messages, i, stats, text_messages,
                   embeddings, result, raisedAt, outcome, nbatches>>

(* repo.create: session.add and commit succeed, the row is in the table *)
CommitOk(r) ==
    /\ pc[r] = "commit"
    /\ Logged(r, "commit")
    /\ ~UniqueViolation(store, message(r).id)
    /\ store' = Append(store, NewRow(r))
    /\ pc' = [pc EXCEPT ![r] = "refresh"]
    /\ UNCHANGED <<envVars, bot, search, argVars, faults, messages, i, stats, batch_stats,
                   text_messages, embeddings, k, result, raisedAt, outcome, fate,
                   nbatches, clean>>

(* repo.create: the commit violates the unique index: IntegrityError, errors += 1 *)
CommitConflict(r) ==
    /\ pc[r] = "commit"
    /\ Logged(r, "commit")
    /\ UniqueViolation(store, message(r).id)
    /\ Counted(r, "errors", "conflict")
    /\ UNCHANGED <<envVars, bot, search, argVars, store, faults, messages, i, stats, text_messages,
                   embeddings, result, raisedAt, outcome, nbatches, clean>>

(* repo.create: the commit raises for another reason *)
CommitFail(r) ==
    /\ pc[r] = "commit"
    /\ Logged(r, "commit")
    /\ StoreFault(r, "commit_failed")
    /\ UNCHANGED <<envVars, bot, search, argVars, store, messages, i, stats, text_messages,
                   embeddings, result, raisedAt, outcome, nbatches>>

(* repo.create: refresh returns, create returns: new_stored += 1 *)
RefreshOk(r) ==
    /\ pc[r] = "refresh"
    /\ Logged(r, "refresh")
    /\ Counted(r, "new_stored", "created")
    /\ UNCHANGED <<envVars, bot, search, argVars, store, faults, messages, i, stats, text_messages,
                   embeddings, result, raisedAt, outcome, nbatches, clean>>

(* repo.create: refresh raises after the commit *)
RefreshFail(r) ==
    /\ pc[r] = "refresh"
    /\ Logged(r, "refresh")
    /\ StoreFault(r, "refresh_failed")
    /\ UNCHANGED <<envVars, bot, search, argVars, store, messages, i, stats, text_messages,
                   embeddings, result, raisedAt, outcome, nbatches>>

(* the session closes, _process_batch returns, the caller adds the batch's counters *)
CloseOk(r) ==
    /\ pc[r] = "close"
    /\ stats' = [stats EXCEPT ![r] = Merge(@, batch_stats[r])]
    /\ outcome' = [outcome EXCEPT ![r] = "stored"]
    /\ pc' = [pc EXCEPT ![r] = "loop"]
    /\ UNCHANGED <<envVars, bot, search, log, argVars, store, faults, messages, i, batch_stats,
                   text_messages, embeddings, k, result, raisedAt, fate, nbatches,
                   clean>>

(* leaving "async with" raises: no handler, the call ends with the exception *)
CloseFail(r) ==
    /\ pc[r] = "close"
    /\ faults < scenario.budget
    /\ faults' = faults + 1
    /\ clean' = [clean EXCEPT ![r] = FALSE]
    /\ pc' = [pc EXCEPT ![r] = "raised"]
    /\ raisedAt' = [raisedAt EXCEPT ![r] = "session"]
    /\ UNCHANGED <<envVars, bot, search, log, argVars, store, messages, i, stats, batch_stats,
                   text_messages, embeddings, k, result, outcome, fate, nbatches>>

(* the awaits of a call: where the event loop can throw into the coroutine *)
AtAwait(r) == Fetching(r) \/ pc[r] \in {"embed", "lookup", "commit", "refresh", "close"}

(* the caller cancels the task: asyncio throws CancelledError into the await   *)
(* the call is suspended at.  CancelledError is a BaseException, so neither    *)
(* "except Exception" of _process_batch catches it and the ingest_* methods    *)
(* have no handler at all: the call ends with the exception, its stats dict    *)
(* is dropped.                                                                 *)
Cancel(r) ==
    /\ AtAwait(r)
    /\ faults < scenario.budget
    /\ faults' = faults + 1
    /\ clean' = [clean EXCEPT ![r] = FALSE]
    /\ pc' = [pc EXCEPT ![r] = "raised"]
    /\ raisedAt' = [raisedAt EXCEPT ![r] = "cancelled"]
    /\ UNCHANGED <<envVars, bot, search, log, argVars, store, messages, i, stats, batch_stats,
                   text_messages, embeddings, k, result, outcome, fate, nbatches>>

----------------------------------------------------------------------------
(* _process_batch and the loop over the batches as functions, for calls in    *)
(* which nothing fails: ids is the set of telegram ids in the table           *)

(* the loop over zip(text_messages, embeddings) from its j-th pair on *)
RECURSIVE StoreLoop(_, _, _, _, _)
StoreLoop(ids, b, msgs, tm, j) ==
    IF j > Len(tm) THEN [ids |-> ids, stats |-> b]
    ELSE IF msgs[tm[j]].id \in ids
         THEN StoreLoop(ids, Count(b, "already_exists"), msgs, tm, j + 1)
         ELSE StoreLoop(ids \cup {msgs[tm[j]].id}, Count(b, "new_stored"), msgs, tm, j + 1)

(* _process_batch(messages[lo - 1 : hi]) *)
process_batch(ids, msgs, lo, hi) ==
    LET tm == Filter(msgs, lo, hi)
    IN  StoreLoop(ids, FilteredStats(hi - lo + 1, Len(tm)), msgs, tm, 1)

(* the values of i: range(0, n, size) *)
BatchStarts(n, size) == {x \in 0 .. n : x % size = 0 /\ InRange(x, n, size)}

(* the batches started at the indices of order, one after the other, each     *)
(* merged into the totals                                                     *)
RECURSIVE RunInOrder(_, _, _, _, _)
RunInOrder(ids, totals, msgs, size, order) ==
    IF order = <<>> THEN totals
    ELSE LET done == process_batch(ids, msgs, Head(order) + 1,
                                   Min(Head(order) + size, Len(msgs)))
         IN  RunInOrder(done.ids, Merge(totals, done.stats), msgs, size, Tail(order))

----------------------------------------------------------------------------
(* The dialog *)

(* the text of a message of the dialog is edited, once, between two calls:    *)
(* iter_messages then yields the same id with the new text                    *)
EditSource ==
    /\ scenario.edits
    /\ pc[1] \in {"done", "raised"}
    /\ pc[2] = "idle"
    /\ \A p \in DOMAIN source : source[p].text \notin EditedTexts
    /\ \E p \in DOMAIN source, t \in EditedTexts :
          source' = [source EXCEPT ![p].text = t]
    /\ UNCHANGED <<scenario, bot, search, log, argVars, store, faults, pc, messages, i, stats,
                   batch_stats, text_messages, embeddings, k, result, raisedAt, outcome,
                   fate, nbatches, clean>>

----------------------------------------------------------------------------
(* Retrieval: search(query_text, k) = embed_text, then search_similar *)

(* the call is made and runs to the await of embed_text *)
SearchStart ==
    /\ scenario.searches
    /\ search.pc = "idle"
    /\ \E t \in QueryTexts, lim \in 0 .. (MaxRows + 1) :
          search' = [search EXCEPT !.pc = "embed_text", !.query_text = t, !.k = lim]
    /\ UNCHANGED <<envVars, bot, argVars, store, faults, pc, messages, i, stats, batch_stats,
                   text_messages, embeddings, k, result, raisedAt, outcome, fate,
                   nbatches, clean, log>>

(* embed_text returns the vector; the call runs to the await of the statement *)
(* of search_similar                                                          *)
QueryEmbedOk ==
    /\ search.pc = "embed_text"
    /\ search' = [search EXCEPT !.pc = "search_similar",
                                !.vector = Vec(search.query_text),
                                !.queried = TRUE]
    /\ UNCHANGED <<envVars, bot, argVars, store, faults, pc, messages, i, stats, batch_stats,
                   text_messages, embeddings, k, result, raisedAt, outcome, fate,
                   nbatches, clean, log>>

(* an except block that logs and returns None *)
embed_text_on_error_Swallow == "return"

(* embed_text: the except block logs and re-raises *)
embed_text_on_error == "raise"

(* aembed_query raises: with the exception re-raised the retrieval call ends  *)
(* with it; were it swallowed, the call would go on to search_similar         *)
QueryEmbedFail ==
    /\ search.pc = "embed_text"
    /\ faults < scenario.budget
    /\ faults' = faults + 1
    /\ search' = IF embed_text_on_error = "raise"
                 THEN [search EXCEPT !.pc = "raised", !.embed_failed = TRUE]
                 ELSE [search EXCEPT !.pc = "search_similar", !.embed_failed = TRUE,
                                     !.queried = TRUE]
    /\ UNCHANGED <<envVars, bot, argVars, store, pc, messages, i, stats, batch_stats,
                   text_messages, embeddings, k, result, raisedAt, outcome, fate,
                   nbatches, clean, log>>

(* the statement returns: the list goes to the caller *)
SearchSimilar ==
    /\ search.pc = "search_similar"
    /\ \E rows \in search_similar(store, search.vector, search.k) :
          search' = [search EXCEPT !.pc = "found", !.results = rows, !.returned = TRUE]
    /\ UNCHANGED <<envVars, bot, argVars, store, faults, pc, messages, i, stats, batch_stats,
                   text_messages, embeddings, k, result, raisedAt, outcome, fate,
                   nbatches, clean, log>>

----------------------------------------------------------------------------
----------------------------------------------------------------------------
(* Dispatch of one incoming message event to the handlers of get_handlers *)

ingestionVars == <<store, faults, pc, messages, i, stats, batch_stats, text_messages,
                   embeddings, k, result, raisedAt, outcome, fate, nbatches, clean, log>>

(* a message arrives *)
Receive ==
    /\ scenario.events
    /\ bot.pc = "idle"
    /\ \E s \in Senders, t \in EventTexts :
          bot' = [NoEvent EXCEPT !.pc = "dispatch", !.sender = s, !.text = t]
    /\ UNCHANGED <<envVars, search, argVars, ingestionVars>>

(* the event builder of the next handler does not match the text *)
FilterOut ==
    /\ bot.pc = "dispatch"
    /\ ~Matches(get_handlers[bot.h].pattern, bot.text)
    /\ bot' = Passed(bot)
    /\ UNCHANGED <<envVars, search, argVars, ingestionVars>>

(* wrapper: the sender is not the authorized user; reply and return *)
Unauthorized ==
    /\ bot.pc = "dispatch"
    /\ Matches(get_handlers[bot.h].pattern, bot.text)
    /\ ~authorized_only(bot.sender)
    /\ bot' = Passed([bot EXCEPT !.replies = Append(@, "unauthorized")])
    /\ UNCHANGED <<envVars, search, argVars, ingestionVars>>

(* wrapper: the sender is the authorized user; the body of the handler runs *)
Called(handler) ==
    /\ bot.pc = "dispatch"
    /\ get_handlers[bot.h].handler = handler
    /\ Matches(get_handlers[bot.h].pattern, bot.text)
    /\ authorized_only(bot.sender)

cmd_start ==
    /\ Called("cmd_start")
    /\ bot' = Stopped(Ran(bot, "cmd_start", {}, <<"welcome">>))
    /\ UNCHANGED <<envVars, search, argVars, ingestionVars>>

(* the note is read and shown; or it is missing and created, or the creation  *)
(* fails; or the read fails otherwise: one reply on each path                 *)
cmd_day ==
    /\ Called("cmd_day")
    /\ \E o \in {"shown", "created", "create_failed", "failed"} :
          bot' = Stopped(Ran(bot, "cmd_day",
                             IF o \in {"created", "create_failed"}
                             THEN {"vault_read", "vault_write"} ELSE {"vault_read"},
                             <<o>>))
    /\ UNCHANGED <<envVars, search, argVars, ingestionVars>>

(* cmd_tasks, cmd_habits, cmd_goals: the list is shown; or the vault raises   *)
(* and the error is replied; or the list is empty: the reply is sent and      *)
(* StopPropagation is raised inside the try, whose "except Exception" catches *)
(* it (StopPropagation is an Exception) and replies the error text            *)
ListCommand(handler) ==
    /\ Called(handler)
    /\ \E o \in {"shown", "empty", "failed"} :
          bot' = Stopped(Ran(bot, handler, {"vault_read"},
                             IF o = "empty" THEN <<"empty", "failed">> ELSE <<o>>))
    /\ UNCHANGED <<envVars, search, argVars, ingestionVars>>

cmd_tasks == ListCommand("cmd_tasks")

cmd_habits == ListCommand("cmd_habits")

cmd_goals == ListCommand("cmd_goals")

cmd_tokens ==
    /\ Called("cmd_tokens")
    /\ \E o \in {"shown", "failed"} :
          bot' = Stopped(Ran(bot, "cmd_tokens", {"vault_read"}, <<o>>))
    /\ UNCHANGED <<envVars, search, argVars, ingestionVars>>

cmd_help ==
    /\ Called("cmd_help")
    /\ bot' = Stopped(Ran(bot, "cmd_help", {}, <<"help">>))
    /\ UNCHANGED <<envVars, search, argVars, ingestionVars>>

(* the catch-all: a text that starts with '/' makes it return, without a      *)
(* reply and without StopPropagation; any other text is parsed by the LLM     *)
(* after the vault was read, the intent may write to the vault, and the       *)
(* response, or the error, is replied                                         *)
handle_message ==
    /\ Called("handle_message")
    /\ \/ /\ StartsWithSlash(bot.text)
          /\ bot' = Passed(Ran(bot, "handle_message", {}, <<>>))
       \/ /\ ~StartsWithSlash(bot.text)
          /\ \E o \in {"answered", "changed", "failed"} :
                bot' = Stopped(Ran(bot, "handle_message",
                                   CASE o = "answered" -> {"vault_read", "llm"}
                                     [] o = "changed" -> {"vault_read", "llm", "vault_write"}
                                     [] o = "failed" -> {"vault_read"},
                                   <<o>>))
    /\ UNCHANGED <<envVars, search, argVars, ingestionVars>>

Events ==
    \/ Receive
    \/ FilterOut
    \/ Unauthorized
    \/ cmd_start
    \/ cmd_day
    \/ cmd_tasks
    \/ cmd_habits
    \/ cmd_goals
    \/ cmd_tokens
    \/ cmd_help
    \/ handle_message

Ingestion ==
    \E r \in Runs :
        \/ Start(r)
        \/ FetchOk(r)
        \/ FetchFail(r)
        \/ RangeError(r)
        \/ Return(r)
        \/ BatchNoText(r)
        \/ BatchBegin(r)
        \/ EmbedOk(r)
        \/ EmbedShort(r)
        \/ EmbedFail(r)
        \/ LookupHit(r)
        \/ LookupMiss(r)
        \/ LookupFail(r)
        \/ CommitOk(r)
        \/ CommitConflict(r)
        \/ CommitFail(r)
        \/ RefreshOk(r)
        \/ RefreshFail(r)
        \/ CloseOk(r)
        \/ CloseFail(r)
        \/ Cancel(r)

Retrieval == SearchStart \/ QueryEmbedOk \/ QueryEmbedFail \/ SearchSimilar

Next == Ingestion \/ EditSource \/ Retrieval \/ Events

Spec == Init /\ [][Next]_vars

----------------------------------------------------------------------------
(* Properties *)

Returned(r) == pc[r] = "done"

Positions(r) == 1 .. Len(messages[r])

Textless(m) == m.text = None \/ m.text = ""

RowsBy(r, p) == {j \in 1 .. Len(store) : store[j].by = <<r, p>>}

(* C1: every call that returns statistics returns counters with              *)
(* total_fetched = new_stored + already_exists + skipped_no_text + errors,    *)
(* for any limit, any batch_size and any pattern of failures after the fetch. *)
C1_StatsBalance ==
    \A r \in Runs :
        Returned(r) =>
            result[r].total_fetched =
                result[r].new_stored + result[r].already_exists
                + result[r].skipped_no_text + result[r].errors

(* C2: the table never holds two rows with the same telegram_id, whatever the *)
(* way the id is presented again (same batch, later batch, later call,        *)
(* interleaved call), and holds exactly one row for the id of every record    *)
(* that was stored.                                                           *)
C2_OneRowPerId ==
    /\ \A t \in Ids : Cardinality(RowsWith(store, t)) <= 1
    /\ \A r \in Runs : \A p \in DOMAIN fate[r] :
          (fate[r][p].counter = "new_stored" \/ RowsBy(r, p) # {})
              => Cardinality(RowsWith(store, messages[r][p].id)) = 1

(* two interleaved calls both missed the id in their lookup; one stored it,   *)
(* the other ran into the unique index                                        *)
C2_Witness ==
    \E p \in DOMAIN fate[1], q \in DOMAIN fate[2] :
        /\ messages[1][p].id = messages[2][q].id
        /\ {fate[1][p].cause, fate[2][q].cause} = {"created", "conflict"}

(* C3: when the same window is ingested twice, one call after the other, with *)
(* a batch_size of at least 1 and no failure in either call, the second call  *)
(* returns new_stored = 0, errors = 0 and                                     *)
(* already_exists = total_fetched - skipped_no_text.                          *)
SameWindowTwice(r1, r2) ==
    /\ r1 \in after[r2]
    /\ Returned(r1) /\ Returned(r2)
    /\ messages[r1] = messages[r2]
    /\ clean[r1] /\ clean[r2]
    /\ batch_size[r1] >= 1 /\ batch_size[r2] >= 1

C3_SecondRunStoresNothing ==
    \A r1, r2 \in Runs :
        SameWindowTwice(r1, r2) =>
            /\ result[r2].new_stored = 0
            /\ result[r2].errors = 0
            /\ result[r2].already_exists =
                   result[r2].total_fetched - result[r2].skipped_no_text

(* a second call over a window with a skipped record and stored ones that the *)
(* first call processed with another batch_size                               *)
C3_Witness ==
    /\ SameWindowTwice(1, 2)
    /\ batch_size[1] # batch_size[2]
    /\ result[2].skipped_no_text >= 1
    /\ result[2].already_exists >= 1
    /\ result[1].new_stored >= 1

(* C4: a record whose lookup missed and whose insert then violated the unique *)
(* index, because another call inserted the id in between, is counted in      *)
(* already_exists and not in errors.                                          *)
C4_ConflictCountsAsExisting ==
    \A r \in Runs : \A p \in DOMAIN fate[r] :
        fate[r][p].cause = "conflict" => fate[r][p].counter = "already_exists"

(* positions of the batch in progress, or of the last one *)
Batch(r) ==
    IF nbatches[r] = 0 THEN {}
    ELSE BatchPositions(Len(messages[r]), i[r], batch_size[r])

(* positions of all the batches begun so far *)
Reached(r) ==
    IF nbatches[r] = 0 THEN {}
    ELSE 1 .. Min(i[r] + batch_size[r], Len(messages[r]))

InStoreLoop(r) == pc[r] \in {"lookup", "commit", "refresh"}

(* C5: a record whose text is absent or empty is never in the list handed to  *)
(* the embedding provider, is never looked up or inserted, and is counted in  *)
(* skipped_no_text and in no other counter, whatever becomes of the provider  *)
(* call of its batch.                                                         *)
C5_TextlessOnlySkipped ==
    \A r \in Runs :
        /\ pc[r] = "embed" =>
              \A j \in DOMAIN texts(r) : texts(r)[j] \notin {None, ""}
        /\ InStoreLoop(r) => ~Textless(message(r))
        /\ \A j \in 1 .. Len(store) : store[j].text \notin {None, ""}
        /\ \A p \in DOMAIN fate[r] :
              Textless(messages[r][p]) => fate[r][p] = Uncounted /\ RowsBy(r, p) = {}
        /\ batch_stats[r].skipped_no_text =
              Cardinality({p \in Batch(r) : Textless(messages[r][p])})
        /\ pc[r] \in {"loop", "done"} =>
              /\ stats[r].skipped_no_text =
                    Cardinality({p \in Reached(r) : Textless(messages[r][p])})
              /\ stats[r].new_stored + stats[r].already_exists + stats[r].errors =
                    Cardinality({p \in Reached(r) : fate[r][p] # Uncounted})

(* a call has returned; one of its batches held a record without text and a   *)
(* record with text, and the provider call of that batch raised               *)
C5_Witness ==
    \E r \in Runs : \E p, q \in Positions(r) :
        /\ Returned(r)
        /\ batch_size[r] >= 2
        /\ (p - 1) \div batch_size[r] = (q - 1) \div batch_size[r]
        /\ messages[r][p].text = ""
        /\ fate[r][q].cause = "provider"
        /\ result[r].skipped_no_text >= 1

Ceil(n, b) == (n + b - 1) \div b

(* C6: when embed_texts raises for a batch, the rows stored by earlier        *)
(* batches stay in the table, all the records with text of that batch are     *)
(* counted in errors, and the loop goes on: every later batch is processed.   *)
C6_ProviderFailureIsolated ==
    \A r \in Runs :
        /\ (pc[r] = "loop" /\ outcome[r] = "provider_failed") =>
              /\ batch_stats[r].errors =
                    Cardinality({p \in Batch(r) : ~Textless(messages[r][p])})
              /\ batch_stats[r].new_stored = 0
              /\ \A p \in Batch(r) : RowsBy(r, p) = {}
              /\ i[r] + batch_size[r] < Len(messages[r]) => MoreBatches(r)
        /\ \A p \in DOMAIN fate[r] :
              fate[r][p].counter = "new_stored" => RowsBy(r, p) # {}
        /\ \A p \in DOMAIN fate[r] :
              fate[r][p].cause = "provider" => fate[r][p].counter = "errors"
        /\ (Returned(r) /\ batch_size[r] >= 1) =>
              nbatches[r] = Ceil(Len(messages[r]), batch_size[r])

(* three batches: the first stored a row, the provider failed on the second,  *)
(* the third was processed and stored a row; the first row is still there     *)
C6_Witness ==
    \E r \in Runs :
        /\ Returned(r)
        /\ nbatches[r] = 3
        /\ batch_size[r] = 1
        /\ fate[r][1].cause = "created"
        /\ fate[r][2].cause = "provider"
        /\ fate[r][3].cause = "created"
        /\ RowsBy(r, 1) # {} /\ RowsBy(r, 3) # {}
        /\ result[r].errors = 1

StoreFailures == {"lookup_failed", "commit_failed", "refresh_failed", "conflict"}

(* C7: when the lookup or the insert of one record of a batch fails, errors   *)
(* is incremented by exactly one for that record, the rows inserted earlier   *)
(* in the batch stay in the table and every later record of the batch is      *)
(* still processed.                                                           *)
C7_StoreFailureIsolated ==
    \A r \in Runs :
        /\ \A p \in DOMAIN fate[r] :
              /\ fate[r][p].cause \in StoreFailures => fate[r][p].counter = "errors"
              /\ fate[r][p].cause = "created" => RowsBy(r, p) # {}
        /\ (InStoreLoop(r) \/ pc[r] = "close") =>
              /\ batch_stats[r].errors =
                    Cardinality({p \in Batch(r) : fate[r][p].cause \in StoreFailures})
              /\ \A j \in 1 .. ZipLen(text_messages[r], embeddings[r]) :
                    (fate[r][text_messages[r][j]] # Uncounted) <=> (j < k[r])
        /\ InStoreLoop(r) => k[r] <= ZipLen(text_messages[r], embeddings[r])
        /\ pc[r] = "close" => k[r] = ZipLen(text_messages[r], embeddings[r]) + 1

(* one batch of three records with text: the first was stored, a store        *)
(* operation failed for the second, the third was stored after that           *)
C7_Witness ==
    \E r \in Runs :
        /\ Returned(r)
        /\ nbatches[r] = 1
        /\ Len(messages[r]) = 3
        /\ fate[r][1].cause = "created"
        /\ fate[r][2].cause \in {"lookup_failed", "commit_failed", "refresh_failed"}
        /\ fate[r][3].cause = "created"
        /\ RowsBy(r, 1) # {} /\ RowsBy(r, 3) # {}
        /\ result[r].errors = 1 /\ result[r].new_stored = 2

(* C8: once the fetch has succeeded the call never raises: every later        *)
(* failure ends in the errors counter and the caller gets the statistics.     *)
C8_NoRaiseAfterFetch ==
    \A r \in Runs : pc[r] = "raised" => raisedAt[r] = "fetch"

(* C9: when the fetch raises, the exception reaches the caller, no statistics *)
(* are returned, no batch is processed (the embedding provider is not called) *)
(* and the call inserts nothing.                                              *)
C9_FetchFailurePropagates ==
    \A r \in Runs :
        raisedAt[r] = "fetch" =>
            /\ pc[r] = "raised"
            /\ result[r] = NoStats
            /\ stats[r] = NoStats
            /\ nbatches[r] = 0
            /\ embeddings[r] = <<>>
            /\ \A j \in 1 .. Len(store) : store[j].by[1] # r

(* the fetch of a call raised although the source had messages, while the     *)
(* table held rows of another call                                            *)
C9_Witness ==
    \E r \in Runs :
        /\ raisedAt[r] = "fetch"
        /\ pc[r] = "raised"
        /\ source # <<>>
        /\ store # <<>>

(* C10: the limit handed to the source never exceeds a fixed maximum.         *)
C10_LimitCapped ==
    \A r \in Runs : requested[r] <= SaneMaxLimit

(* C11: a call that is cancelled while batches remain lets the batch in       *)
(* progress finish, starts no new batch and returns the statistics            *)
(* accumulated so far: once it has ended, it has returned and not raised.     *)
C11_CancelReturnsPartialStats ==
    \A r \in Runs :
        (raisedAt[r] = "cancelled" /\ nbatches[r] >= 1 /\ Ended(pc[r])) =>
            /\ Returned(r)
            /\ result[r].total_fetched = Len(messages[r])

Embedded(j) == store[j].embedding # NoEmbedding

Distance(j) == l2_distance(store[j].embedding, search.vector)

C13_UnembeddedNeverReturned ==
    search.pc = "found" =>
        \A a \in DOMAIN search.results :
            /\ search.results[a] \in 1 .. Len(store)
            /\ Embedded(search.results[a])

(* the table has a row without an embedding and fewer rows with one than      *)
(* were asked for; the answer holds the embedded rows only                    *)
C13_Witness ==
    /\ search.pc = "found"
    /\ \E j \in 1 .. Len(store) : ~Embedded(j)
    /\ search.k > Cardinality({j \in 1 .. Len(store) : Embedded(j)})
    /\ search.results # <<>>

(* C17: a retrieval call whose query-embedding call failed ends with the      *)
(* error, hands no list to the caller, and the table is not queried.          *)
C17_QueryEmbeddingFailureSurfaces ==
    search.embed_failed =>
        /\ search.pc = "raised"
        /\ ~search.returned
        /\ ~search.queried
        /\ search.results = <<>>

(* the query-embedding call failed over a table that has rows with an         *)
(* embedding, for a k of at least 1                                           *)
C17_Witness ==
    /\ search.embed_failed
    /\ search.pc = "raised"
    /\ search.k >= 1
    /\ \E j \in 1 .. Len(store) : Embedded(j)

WithText(r) == {p \in Positions(r) : ~Textless(messages[r][p])}

(* the call ran without a failure over records with text of distinct ids,     *)
(* none of which was in the table: every row of the table is its own          *)
NominalRun(r) ==
    /\ Returned(r)
    /\ clean[r]
    /\ batch_size[r] >= 1
    /\ \A p, q \in WithText(r) : p # q => messages[r][p].id # messages[r][q].id
    /\ \A j \in 1 .. Len(store) : store[j].by[1] = r

(* C14: a call over n fetched records of which t have text, with distinct     *)
(* ids none of which is in the table, a batch size b >= 1 and no failure,     *)
(* processes ceil(n / b) batches and returns total_fetched = n,               *)
(* new_stored = t, already_exists = 0, skipped_no_text = n - t, errors = 0.   *)
C14_NominalRunStatistics ==
    \A r \in Runs :
        NominalRun(r) =>
            LET n == Len(messages[r])
                t == Cardinality(WithText(r))
            IN  /\ nbatches[r] = Ceil(n, batch_size[r])
                /\ result[r] = [total_fetched |-> n, new_stored |-> t,
                                already_exists |-> 0, skipped_no_text |-> n - t,
                                errors |-> 0]

(* three records, two of them with text, in batches of two: batches of 2, 1   *)
C14_Witness ==
    \E r \in Runs :
        /\ NominalRun(r)
        /\ Len(messages[r]) = 3
        /\ batch_size[r] = 2
        /\ nbatches[r] = 2
        /\ result[r].new_stored = 2
        /\ result[r].skipped_no_text = 1

(* C15: a row of the table stays as the call that inserted it wrote it (the   *)
(* id, the text and the embedding of the record that call had fetched): a     *)
(* later record with the same id, also one with another text, does not        *)
(* change it.                                                                 *)
C15_StoredRowUnchanged ==
    \A j \in 1 .. Len(store) :
        store[j].by[1] \in Runs =>
            LET m == messages[store[j].by[1]][store[j].by[2]]
            IN  /\ store[j].telegram_id = m.id
                /\ store[j].text = m.text
                /\ store[j].embedding = Vec(m.text)

(* the first call stored a message; the message was edited; the second call   *)
(* fetched the id with the new text, found the row and counted it in          *)
(* already_exists                                                             *)
C15_Witness ==
    \E p \in DOMAIN fate[1], q \in DOMAIN fate[2] :
        /\ Returned(2)
        /\ messages[1][p].id = messages[2][q].id
        /\ messages[1][p].text # messages[2][q].text
        /\ fate[1][p].cause = "created"
        /\ fate[2][q].cause = "lookup_hit"
        /\ RowsBy(1, p) # {}

(* the call ran without a failure, with a batch size of at least 1, on a      *)
(* table that held no row of another call                                     *)
FailureFreeRun(r) ==
    /\ Returned(r)
    /\ clean[r]
    /\ batch_size[r] >= 1
    /\ \A j \in 1 .. Len(store) : store[j].by[1] = r

(* C16: the statistics of a call do not depend on the order in which its      *)
(* batches are executed: executed in any order over the same fetched          *)
(* records, ids that repeat across batches included, the batches merge into   *)
(* the totals the call returned.                                              *)
C16_BatchOrderIrrelevant ==
    \A r \in Runs :
        FailureFreeRun(r) =>
            \A order \in Listings(BatchStarts(Len(messages[r]), batch_size[r])) :
                RunInOrder({}, InitialStats(messages[r]), messages[r], batch_size[r],
                           order) = result[r]

(* three batches; two records with text in different batches carry the same   *)
(* id, so which of the two is stored depends on the order                     *)
C16_Witness ==
    \E r \in Runs : \E p, q \in WithText(r) :
        /\ FailureFreeRun(r)
        /\ nbatches[r] = 3
        /\ p < q
        /\ messages[r][p].id = messages[r][q].id
        /\ fate[r][p].cause = "created"
        /\ fate[r][q].cause = "lookup_hit"

Calls(r, op) == {a \in DOMAIN log[r] : log[r][a][1] = op}

StoreCalls(r) == {a \in DOMAIN log[r] : log[r][a][1] # "embed_texts"}

(* C18: when embed_texts raises for a batch, the batch returns exactly        *)
(* new_stored = 0, already_exists = 0, errors = number of its records with    *)
(* text, skipped_no_text = number of its records without text, and it has     *)
(* made no database call: no lookup, no insert, no row of its records.        *)
C18_ProviderFailureStatsAndFrame ==
    \A r \in Runs :
        (pc[r] \in {"loop", "done"} /\ outcome[r] = "provider_failed") =>
            /\ batch_stats[r] =
                  [new_stored |-> 0, already_exists |-> 0,
                   errors |-> Cardinality(Batch(r) \cap WithText(r)),
                   skipped_no_text |-> Cardinality(Batch(r) \ WithText(r))]
            /\ StoreCalls(r) = {}
            /\ \A p \in Batch(r) : RowsBy(r, p) = {}

(* the provider call failed for a batch of three records, two with text and  *)
(* one without                                                                *)
C18_Witness ==
    \E r \in Runs :
        /\ pc[r] = "loop"
        /\ outcome[r] = "provider_failed"
        /\ Cardinality(Batch(r) \cap WithText(r)) = 2
        /\ Cardinality(Batch(r) \ WithText(r)) = 1
        /\ log[r] = <<<<"embed_texts", 0>>>>

C20_OneProviderCallPerBatch ==
    \A r \in Runs :
        /\ Cardinality(Calls(r, "embed_texts")) <= 1
        /\ pc[r] = "embed" =>
              /\ Len(texts(r)) = Cardinality(Batch(r) \cap WithText(r))
              /\ \A j \in DOMAIN texts(r) :
                    \E p \in Batch(r) \cap WithText(r) :
                        /\ Cardinality({q \in Batch(r) \cap WithText(r) : q <= p}) = j
                        /\ texts(r)[j] = messages[r][p].text
        /\ outcome[r] = "no_text" => log[r] = <<>>

(* a first batch whose two records with text were sent in one call and        *)
(* stored, then a batch without text that made no call                        *)
C20_Witness ==
    \E r \in Runs :
        /\ outcome[r] = "no_text"
        /\ nbatches[r] = 2
        /\ batch_size[r] = 2
        /\ fate[r][1].cause = "created"
        /\ fate[r][2].cause = "created"
        /\ log[r] = <<>>

(* C21: records are processed in the order fetched.  The database calls of a  *)
(* batch are for records of that batch and are made in the order of the       *)
(* fetched sequence; no record of a batch not yet begun has been looked up,   *)
(* counted or inserted; the rows of a call are in the table in the order of   *)
(* the fetched sequence.                                                      *)
C21_ProcessedInFetchOrder ==
    \A r \in Runs :
        /\ \A a \in StoreCalls(r) : log[r][a][2] \in Batch(r) \cap WithText(r)
        /\ \A a, b \in StoreCalls(r) : a < b => log[r][a][2] <= log[r][b][2]
        /\ \A p \in Positions(r) \ Reached(r) :
              fate[r][p] = Uncounted /\ RowsBy(r, p) = {}
        /\ \A j1, j2 \in 1 .. Len(store) :
              (j1 < j2 /\ store[j1].by[1] = r /\ store[j2].by[1] = r)
                  => store[j1].by[2] < store[j2].by[2]

(* a call in its second batch: the two records of the first batch are stored  *)
(* in their order, the record of the second batch has been looked up          *)
C21_Witness ==
    \E r \in Runs :
        /\ pc[r] = "close"
        /\ nbatches[r] = 2
        /\ batch_size[r] = 2
        /\ RowsBy(r, 1) = {1} /\ RowsBy(r, 2) = {2}
        /\ log[r] = <<<<"embed_texts", 0>>, <<"get_by_telegram_id", 3>>>>

(* C22: every row that ingestion inserts has, when it is first persisted, a   *)
(* text that is not empty and an embedding that is not absent.                *)
C22_RowsHaveTextAndEmbedding ==
    /\ \A r \in Runs :
          pc[r] = "commit" =>
              /\ NewRow(r).text \notin {None, ""}
              /\ NewRow(r).embedding # NoEmbedding
    /\ \A j \in 1 .. Len(store) :
          store[j].by[1] \in Runs =>
              /\ store[j].text \notin {None, ""}
              /\ store[j].embedding # NoEmbedding

(* a row was inserted for the second record of a batch whose first record     *)
(* has no text                                                                *)
C22_Witness ==
    \E r \in Runs :
        /\ nbatches[r] = 1
        /\ batch_size[r] >= 2
        /\ Textless(messages[r][1])
        /\ RowsBy(r, 2) # {}

(* C23: rows with an embedding at the same distance from the query vector     *)
(* are returned in the order in which they were inserted.                     *)
C23_TiesInInsertionOrder ==
    search.pc = "found" =>
        \A a, b \in DOMAIN search.results :
            (a < b /\ Distance(search.results[a]) = Distance(search.results[b]))
                => search.results[a] < search.results[b]

(* C24: with a batch_size of at least 1 the batches are contiguous slices     *)
(* that do not overlap and cover the fetched sequence in order: the k-th      *)
(* batch starts at (k - 1) * batch_size, is not empty, has batch_size         *)
(* records unless it is the last, and a call that returns has processed       *)
(* ceil(n / batch_size) batches.                                              *)
C24_ContiguousBatches ==
    \A r \in Runs :
        (batch_size[r] >= 1 /\ nbatches[r] >= 1) =>
            LET n == Len(messages[r])
                size == batch_stats[r].skipped_no_text + Len(text_messages[r])
            IN  /\ i[r] = (nbatches[r] - 1) * batch_size[r]
                /\ i[r] < n
                /\ size >= 1
                /\ size = Min(batch_size[r], n - i[r])
                /\ nbatches[r] < Ceil(n, batch_size[r]) => size = batch_size[r]
                /\ \A j \in DOMAIN text_messages[r] :
                      text_messages[r][j] \in (i[r] + 1) .. (i[r] + size)
                /\ Returned(r) => nbatches[r] = Ceil(n, batch_size[r])

(* three records in batches of two: the second batch, the last one, holds     *)
(* the third record only                                                      *)
C24_Witness ==
    \E r \in Runs :
        /\ pc[r] = "embed"
        /\ Len(messages[r]) = 3
        /\ batch_size[r] = 2
        /\ nbatches[r] = 2
        /\ text_messages[r] = <<3>>

(* C25: new_stored of a call is the number of rows the call added: a record   *)
(* counted in errors or in already_exists has no row of this call, and the    *)
(* statistics a call returns count every row it inserted, also when a step    *)
(* of the insert after the commit failed.                                     *)
C25_NewStoredCountsRows ==
    \A r \in Runs :
        /\ \A p \in DOMAIN fate[r] :
              fate[r][p].counter \in {"errors", "already_exists"} => RowsBy(r, p) = {}
        /\ Returned(r) =>
              result[r].new_stored =
                  Cardinality({j \in 1 .. Len(store) : store[j].by[1] = r})

(* C26: when the provider call of a batch returned, every record with text    *)
(* of the batch was looked up exactly once and counted in exactly one of      *)
(* new_stored, already_exists, errors, whatever the number of vectors the     *)
(* provider returned.                                                         *)
C26_EveryTextRecordCounted ==
    \A r \in Runs :
        (pc[r] \in {"loop", "done"} /\ outcome[r] = "stored") =>
            /\ \A p \in Batch(r) \cap WithText(r) :
                  /\ fate[r][p].counter \in {"new_stored", "already_exists", "errors"}
                  /\ Cardinality({a \in Calls(r, "get_by_telegram_id") :
                                     log[r][a][2] = p}) = 1
            /\ batch_stats[r].new_stored + batch_stats[r].already_exists
                    + batch_stats[r].errors = Cardinality(Batch(r) \cap WithText(r))

(* C27: the embedding stored with a record is the vector the provider         *)
(* returned for the text of that record: the zip loop pairs the k-th record   *)
(* with text of the batch with the k-th vector, wherever the records without  *)
(* text stand in the batch.                                                   *)
C27_OwnVectorStored ==
    /\ \A r \in Runs :
          InStoreLoop(r) =>
              /\ Cardinality({q \in Batch(r) \cap WithText(r) : q <= Current(r)}) = k[r]
              /\ embeddings[r][k[r]] = Vec(messages[r][Current(r)].text)
    /\ \A j \in 1 .. Len(store) :
          store[j].by[1] \in Runs => store[j].embedding = Vec(store[j].text)

(* a batch of three records, the first without text: the second and the       *)
(* third were stored with the first and the second vector                     *)
C27_Witness ==
    \E r \in Runs :
        /\ nbatches[r] = 1
        /\ Textless(messages[r][1])
        /\ Len(embeddings[r]) = 2
        /\ RowsBy(r, 2) # {}
        /\ RowsBy(r, 3) # {}

(* C28: two records with text of one batch carry the same id and nothing      *)
(* fails (no database or provider failure, no other call at work): the later  *)
(* one is counted in already_exists by its lookup, never in errors, and the   *)
(* first of them is counted in new_stored with its row in the table, or in    *)
(* already_exists when the table held the id before the batch.                *)
C28_DuplicateInBatch ==
    \A r \in Runs :
        (clean[r] /\ ~scenario.overlap) =>
            \A p, q \in Batch(r) \cap WithText(r) :
                (/\ p < q
                 /\ messages[r][p].id = messages[r][q].id
                 /\ fate[r][q] # Uncounted) =>
                    /\ fate[r][q] = [counter |-> "already_exists", cause |-> "lookup_hit"]
                    /\ fate[r][p].counter \in {"new_stored", "already_exists"}
                    /\ fate[r][p].cause = "created" => RowsBy(r, p) # {}
                    /\ \E j \in 1 .. Len(store) :
                          /\ store[j].telegram_id = messages[r][q].id
                          /\ store[j].by # <<r, q>>
                    /\ (/\ \A j \in 1 .. Len(store) : store[j].by[1] = r
                        /\ nbatches[r] = 1
                        /\ \A o \in Batch(r) \cap WithText(r) :
                              o < p => messages[r][o].id # messages[r][p].id) =>
                           fate[r][p] = [counter |-> "new_stored", cause |-> "created"]

(* a batch with the same id twice, on an empty table: the first record was    *)
(* inserted and the second was found by its lookup                            *)
C28_Witness ==
    \E r \in Runs :
        \E p, q \in Batch(r) \cap WithText(r) :
            /\ clean[r]
            /\ p < q
            /\ messages[r][p].id = messages[r][q].id
            /\ fate[r][p].cause = "created"
            /\ fate[r][q].cause = "lookup_hit"
            /\ RowsBy(r, p) # {}
            /\ Returned(r)

(* handlers registered before the one the dispatch stands at whose event      *)
(* builder matched the text                                                   *)
MatchedSoFar ==
    {j \in 1 .. Len(get_handlers) :
        /\ j < bot.h \/ (bot.pc = "done" /\ j = bot.h)
        /\ Matches(get_handlers[j].pattern, bot.text)}

(* C29: an event whose sender is not the authorized user runs no handler      *)
(* body, reads and writes no vault file and calls no LLM; what it causes is   *)
(* the unauthorized reply of the wrapper of each handler that matched, and    *)
(* nothing else.                                                              *)
C29_UnauthorizedRunsNothing ==
    (bot.pc # "idle" /\ bot.sender # Owner) =>
        /\ bot.ran = {}
        /\ bot.calls = {}
        /\ \A j \in 1 .. Len(bot.replies) : bot.replies[j] = "unauthorized"
        /\ Len(bot.replies) = Cardinality(MatchedSoFar)

(* a stranger sent /tasks: the dispatch is over and the reply was sent *)
C29_Witness ==
    /\ bot.pc = "done"
    /\ bot.sender # Owner
    /\ bot.text = <<"/tasks">>
    /\ bot.replies # <<>>

============================================================================
